---------------------------- MODULE Spec2Model ----------------------------
(***************************************************************************)
(* Coordination core of the VFS booking bot:                               *)
(*   - RetryManager.retry and its CircuitBreaker (src/src/retry_manager.py)*)
(*   - the slot loop of VFSBookingBot.perform_booking_cycle with its       *)
(*     per-slot locks and rate limiter (src/src/VSFBookingBot.py), and the *)
(*     other callers of BookingManager.book_slot.                          *)
(* Collaborators the core only calls (security hook, wrapped operation,    *)
(* booking transaction on the web site) are nondeterministic outcomes.     *)
(***************************************************************************)
EXTENDS Integers, Sequences, FiniteSets, TLC

(***************************************************************************)
(* Bounds of the model.                                                    *)
(***************************************************************************)
MaxTime == 3
MaxClock == 2
MaxRetries == 2
JitterSteps == 1
MaxAttempt == 4
MaxChecks == 5
MaxErrors == 1
MaxSlots == 3
MaxDay == 2

(***************************************************************************)
(* Program constants.                                                      *)
(***************************************************************************)
NoTime == 0
ErrorRateThresholdPct == 10
UsageThresholdPct == 90
ProbeFailureThreshold == 5

Calls == {"c1", "c2"}
OpNames == {"A", "B"}
Thresholds == {1, 2}
ResetTimeouts == {1}
RetryStrategies == {"exponential"}
RetryBaseDelays == {1}
RetryMaxDelays == {2}
Cycles == {"k1", "k2"}
OtherCallers == {"on_booking_error", "rapid_book"}
Tasks == Cycles \cup OtherCallers
SlotIds == {"s1", "s2"}
SlotLists == {<<"s1">>, <<"s1", "s2">>, <<"s2", "s1">>}
UserLists == {<<>>, <<"u1">>, <<"u1", "u2">>}
Rates == {1, 2}
BookingResults == {"success", "failure", "raise"}
SecOutcomes == {"ok", "Exception"}
OpOutcomes == {"ok", "TimeoutError", "Exception"}
Components == {"api", "db"}
Endpoints == <<"api", "db">>
ProbeResults == {"200", "non200", "Timeout", "Exception"}
UsageLevels == {50, 90}
Reporters == {"booking"}
PrioCalls == {"p1", "p2"}
SlotKinds ==
    {[type |-> "NACIONAL", date |-> 1, available_spots |-> 1],
     [type |-> "NACIONAL", date |-> 2, available_spots |-> 1],
     [type |-> "SCHENGEN", date |-> 1, available_spots |-> 1],
     [type |-> "SCHENGEN", date |-> 2, available_spots |-> 2],
     [type |-> "NACIONAL", date |-> 0, available_spots |-> 1],
     [type |-> "SCHENGEN", date |-> 2, available_spots |-> 0],
     [type |-> "OTHER", date |-> 2, available_spots |-> 1]}
DelayStrategies == {"linear", "exponential", "fibonacci", "fixed", "other"}
DelayBaseDelays == {1, 5, 10}
DelayMaxDelays == {8, 21, 300}

VARIABLES
    now,                \* time.time(), in whole time units
    failure_threshold,  \* circuit_breaker_options['failure_threshold']
    reset_timeout,      \* circuit_breaker_options['reset_timeout']
    cb,                 \* RetryManager.circuit_breaker (one per RetryManager)
    call,               \* the retry() invocations
    rate,               \* config['rate_limit_per_second']
    clock,              \* the event loop's time, in units of 1/rate second
    rate_limiter,       \* VFSBookingBot.rate_limiter
    booking_locks,      \* VFSBookingBot.booking_locks
    task,               \* booking cycles and the other callers of book_slot
    cycle_booked,       \* history: successful bookings per slot id, by cycles
    failed,             \* history: slot ids with a failed booking attempt
    recent,             \* history: booking attempts started at the last rate
                        \* clock values (one second), newest first
    error_counts,       \* HealthCheck.error_counts
    health,             \* the rest of the HealthCheck object and its check cycle
    calc,               \* a calculate_delay call: its arguments and results
    endpoint,           \* app.py: its health_checker and its latest response
    prio,               \* PriorityManager and its prioritization call
    booking_stats,      \* BookingManager.booking_stats
    emitted,            \* the events BookingManager has emitted to listeners
    bot                 \* VFSBookingBot.run: its position and the is_running flags

retryVars == <<now, failure_threshold, reset_timeout, cb, call>>
bookingVars == <<rate, clock, rate_limiter, booking_locks, task, cycle_booked,
                 failed, recent, booking_stats, emitted>>
healthVars == <<error_counts, health>>
delayVars == <<calc>>
endpointVars == <<endpoint>>
priorityVars == <<prio>>
runVars == <<bot>>
vars == <<now, failure_threshold, reset_timeout, cb, call, rate, clock,
          rate_limiter, booking_locks, task, cycle_booked, failed, recent,
          error_counts, health, calc, endpoint, prio, booking_stats, emitted,
          bot>>

Min(a, b) == IF a <= b THEN a ELSE b
Max(a, b) == IF a >= b THEN a ELSE b

RECURSIVE Pow2(_)
Pow2(n) == IF n <= 0 THEN 1 ELSE 2 * Pow2(n - 1)

\* HealthCheck.error_counts and record_error / record_success (243-252)
NoCounts == [n \in {} |-> 0]

GetCount(ec, c) == IF c \in DOMAIN ec THEN ec[c] ELSE 0

SetCount(ec, c, v) == [n \in DOMAIN ec \cup {c} |-> IF n = c THEN v ELSE ec[n]]

\* HealthCheck.record_error and record_success, as far as the counts go
hc_record_error(ec, c) == SetCount(ec, c, GetCount(ec, c) + 1)

hc_record_success(ec, c) == SetCount(ec, c, 0)

(***************************************************************************)
(* The rate limiter, AsyncLimiter(rate_limit_per_second, 1): a leaky       *)
(* bucket of capacity max_rate that drains max_rate per second, that is 1  *)
(* per clock unit.  Entering it acquires one unit; leaving it does nothing.*)
(***************************************************************************)
NewLimiter == [level |-> 0, last_check |-> 0]

leak(lim, t) ==
    [level |-> IF lim.level > 0 THEN Max(lim.level - (t - lim.last_check), 0)
               ELSE lim.level,
     last_check |-> t]

has_capacity(lim, t) == leak(lim, t).level + 1 <= rate

acquire(lim, t) == [leak(lim, t) EXCEPT !.level = @ + 1]

(***************************************************************************)
(* The per-slot locks: asyncio.Lock objects made on first use and kept.    *)
(* owner is a history field (an asyncio.Lock does not know its holder).    *)
(***************************************************************************)
NoLock == [created |-> FALSE, locked |-> FALSE, waiters |-> <<>>, owner |-> "none"]

get_booking_lock(locks, s) ==
    IF locks[s].created THEN locks ELSE [locks EXCEPT ![s].created = TRUE]

\* attempted and won are history fields: the slots book_slot was called for, in
\* call order, and the position in slots of the cycle's successful booking
\* best is best_slot of the _book_slot invocation in progress; waited tells
\* that the cycle had to queue for the lock it holds (a history field).
\* users is user_data_list; forms is a history field: the FormFiller calls the
\* cycle has made, in call order
IdleTask == [pc |-> "idle", slots |-> <<>>, idx |-> 0, slot |-> "none",
             token |-> FALSE, attempted |-> <<>>, won |-> 0, users |-> <<>>,
             forms |-> <<>>, tries |-> 0, best |-> "none",
             waited |-> FALSE]

NoStats == [total_attempts |-> 0, successful_bookings |-> 0, failed_bookings |-> 0]

\* _book_slot starts (77-79)
book_slot_begin(st) == [st EXCEPT !.total_attempts = @ + 1]

\* the failure is counted only when handle_booking_errors returns
book_slot_end_after_handler(st, res) ==
    IF res = "success" THEN [st EXCEPT !.successful_bookings = @ + 1]
    ELSE IF res = "failure" THEN [st EXCEPT !.failed_bookings = @ + 1]
    ELSE st

\* _book_slot ends (126-139): confirmed, or in the except branch, whose
\* handle_booking_errors returns ("failure") or raises ("raise")
book_slot_end(st, res) ==
    IF res = "success" THEN [st EXCEPT !.successful_bookings = @ + 1]
    ELSE [st EXCEPT !.failed_bookings = @ + 1]

\* handle_booking_errors (221-225) records the error under "booking"
handle_booking_errors(ec, res) ==
    IF res = "success" THEN ec ELSE hc_record_error(ec, "booking")

BookingAtRest ==
    /\ booking_stats = NoStats
    /\ emitted = <<>>
    /\ rate = CHOOSE r \in Rates : \A q \in Rates : r <= q
    /\ clock = 0
    /\ rate_limiter = NewLimiter
    /\ booking_locks = [s \in SlotIds |-> NoLock]
    /\ task = [t \in Tasks |-> IdleTask]
    /\ cycle_booked = [s \in SlotIds |-> 0]
    /\ failed = {}
    /\ recent = [u \in 1..rate |-> 0]

FormCall(op, u) == [op |-> op, user |-> u]

\* the FormFiller calls of lines 220-229 for user_data_list = users
RECURSIVE fill_and_save(_)
fill_and_save(users) ==
    IF users = <<>> THEN <<>>
    ELSE <<FormCall("fill_form", Head(users)), FormCall("save_form", "none")>>
             \o fill_and_save(Tail(users))

form_calls(users) ==
    fill_and_save(users)
        \o (IF Len(users) = 2
            THEN <<FormCall("add_another_applicant", "none"),
                   FormCall("fill_form", users[2]), FormCall("save_form", "none")>>
            ELSE <<>>)
        \o <<FormCall("continue_to_booking", "none")>>

\* the two early returns come after the forms
StartCycleFormsFirst(c, list, users) ==
    /\ task[c].pc = "idle"
    /\ task' = [task EXCEPT ![c] =
                    IF list = <<>> \/ users = <<>>
                    THEN [IdleTask EXCEPT !.pc = "done", !.slots = list,
                                          !.users = users,
                                          !.forms = form_calls(users)]
                    ELSE [IdleTask EXCEPT !.pc = "loop", !.slots = list,
                                          !.idx = 1, !.users = users,
                                          !.forms = form_calls(users)]]
    /\ UNCHANGED <<rate, clock, rate_limiter, booking_locks, cycle_booked,
                   failed, recent, retryVars, healthVars, delayVars,
                   endpointVars, priorityVars,
                   booking_stats, emitted,
                   runVars>>

\* perform_booking_cycle up to its slot loop (199-231).  list is
\* prioritized_slots after lines 205-207, users what get_unbooked_users
\* returns.  The cycle returns at 213 or 218, or fills the forms and enters
\* the loop.
StartCycle(c, list, users) ==
    /\ task[c].pc = "idle"
    /\ task' = [task EXCEPT ![c] =
                    IF list = <<>>
                    THEN [IdleTask EXCEPT !.pc = "done"]
                    ELSE IF users = <<>>
                    THEN [IdleTask EXCEPT !.pc = "done", !.slots = list]
                    ELSE [IdleTask EXCEPT !.pc = "loop", !.slots = list,
                                          !.idx = 1, !.users = users,
                                          !.forms = form_calls(users)]]
    /\ UNCHANGED <<rate, clock, rate_limiter, booking_locks, cycle_booked,
                   failed, recent, retryVars, healthVars, delayVars,
                   endpointVars, priorityVars,
                   booking_stats, emitted,
                   runVars>>

\* the lock is taken whatever its state: a lock made anew at every call
AcquireLockFresh(c) ==
    /\ task[c].pc = "loop"
    /\ LET s == task[c].slots[task[c].idx]
           locks == get_booking_lock(booking_locks, s)
       IN  /\ booking_locks' = [locks EXCEPT ![s].locked = TRUE, ![s].owner = c]
           /\ task' = [task EXCEPT ![c].pc = "limiter", ![c].slot = s]
    /\ UNCHANGED <<rate, clock, rate_limiter, cycle_booked, failed, recent,
                   retryVars, healthVars, delayVars, endpointVars, priorityVars,
                   booking_stats, emitted,
                   runVars>>

\* async with self.get_booking_lock(slot.id) (232, 242-245): taken at once when
\* free with nobody waiting, else the cycle queues
AcquireLock(c) ==
    /\ task[c].pc = "loop"
    /\ LET s == task[c].slots[task[c].idx]
           locks == get_booking_lock(booking_locks, s)
       IN  IF ~locks[s].locked /\ locks[s].waiters = <<>>
           THEN /\ booking_locks' = [locks EXCEPT ![s].locked = TRUE, ![s].owner = c]
                /\ task' = [task EXCEPT ![c].pc = "limiter", ![c].slot = s]
           ELSE /\ booking_locks' = [locks EXCEPT ![s].waiters = Append(@, c)]
                /\ task' = [task EXCEPT ![c].pc = "waitlock", ![c].slot = s]
    /\ UNCHANGED <<rate, clock, rate_limiter, cycle_booked, failed, recent,
                   retryVars, healthVars, delayVars, endpointVars, priorityVars,
                   booking_stats, emitted,
                   runVars>>

\* the first waiter of a released lock takes it
LockGranted(c) ==
    /\ task[c].pc = "waitlock"
    /\ LET s == task[c].slot
       IN  /\ ~booking_locks[s].locked
           /\ booking_locks[s].waiters # <<>>
           /\ Head(booking_locks[s].waiters) = c
           /\ booking_locks' = [booking_locks EXCEPT ![s].locked = TRUE,
                                    ![s].owner = c, ![s].waiters = Tail(@)]
    /\ task' = [task EXCEPT ![c].pc = "limiter", ![c].waited = TRUE]
    /\ UNCHANGED <<rate, clock, rate_limiter, cycle_booked, failed, recent,
                   retryVars, healthVars, delayVars, endpointVars, priorityVars,
                   booking_stats, emitted,
                   runVars>>

\* async with self.rate_limiter (233) gets its unit and book_slot is called (234)
AcquireToken(c) ==
    /\ task[c].pc = "limiter"
    /\ has_capacity(rate_limiter, clock)
    /\ rate_limiter' = acquire(rate_limiter, clock)
    /\ task' = [task EXCEPT ![c].pc = "booking", ![c].token = TRUE,
                            ![c].attempted = Append(@, task[c].slot),
                            ![c].tries = 1]
    /\ recent' = [recent EXCEPT ![1] = @ + 1]
    /\ booking_stats' = book_slot_begin(booking_stats)
    /\ UNCHANGED <<rate, clock, booking_locks, cycle_booked, failed,
                   retryVars, healthVars, delayVars, endpointVars,
                   priorityVars, emitted,
                   runVars>>

\* the loop goes on to the next slot after a successful booking as well
BookingEndsNoBreak(c, res) ==
    /\ task[c].pc = "booking"
    /\ LET s == task[c].slot
           last == task[c].idx >= Len(task[c].slots)
           ok == res = "success"
           on == IF task[c].best = "none" THEN s ELSE task[c].best
       IN  /\ booking_locks' = [booking_locks EXCEPT ![s].locked = FALSE,
                                                     ![s].owner = "none"]
           /\ cycle_booked' = IF ok THEN [cycle_booked EXCEPT ![on] = @ + 1]
                              ELSE cycle_booked
           /\ failed' = IF res = "failure" THEN failed \cup {s} ELSE failed
           /\ task' = IF res # "raise" /\ ~last
                      THEN [task EXCEPT ![c].pc = "loop", ![c].idx = @ + 1,
                                        ![c].slot = "none", ![c].token = FALSE,
                                        ![c].tries = 0, ![c].best = "none", ![c].waited = FALSE,
                                        ![c].won = IF ok /\ @ = 0
                                                   THEN task[c].idx ELSE @]
                      ELSE [task EXCEPT ![c].pc = "done", ![c].slot = "none",
                                        ![c].token = FALSE, ![c].tries = 0,
                                        ![c].best = "none", ![c].waited = FALSE,
                                        ![c].won = IF ok /\ @ = 0
                                                   THEN task[c].idx ELSE @]
    /\ booking_stats' = book_slot_end(booking_stats, res)
    /\ error_counts' = handle_booking_errors(error_counts, res)
    /\ UNCHANGED <<rate, clock, rate_limiter, recent, retryVars, health,
                   delayVars, endpointVars, priorityVars, emitted,
                   runVars>>

\* the lock is released when book_slot returns, not when it raises
BookingEndsLockKeptOnRaise(c, res) ==
    /\ task[c].pc = "booking"
    /\ LET s == task[c].slot
           last == task[c].idx >= Len(task[c].slots)
           ok == res = "success"
           on == IF task[c].best = "none" THEN s ELSE task[c].best
       IN  /\ booking_locks' = IF res = "raise" THEN booking_locks
                              ELSE [booking_locks EXCEPT ![s].locked = FALSE,
                                                         ![s].owner = "none"]
           /\ cycle_booked' = IF ok THEN [cycle_booked EXCEPT ![on] = @ + 1]
                              ELSE cycle_booked
           /\ failed' = IF res = "failure" THEN failed \cup {s} ELSE failed
           /\ task' = IF res = "failure" /\ ~last
                      THEN [task EXCEPT ![c].pc = "loop", ![c].idx = @ + 1,
                                        ![c].slot = "none", ![c].token = FALSE,
                                        ![c].tries = 0, ![c].best = "none", ![c].waited = FALSE]
                      ELSE [task EXCEPT ![c].pc = "done", ![c].slot = "none",
                                        ![c].token = FALSE, ![c].tries = 0,
                                        ![c].best = "none", ![c].waited = FALSE,
                                        ![c].won = IF ok THEN task[c].idx ELSE @]
    /\ booking_stats' = book_slot_end(booking_stats, res)
    /\ error_counts' = handle_booking_errors(error_counts, res)
    /\ UNCHANGED <<rate, clock, rate_limiter, recent, retryVars, health,
                   delayVars, endpointVars, priorityVars, emitted,
                   runVars>>

\* book_slot ends; both context managers are left, which releases the lock;
\* the loop breaks on success and goes on otherwise (234-236)
BookingEnds(c, res) ==
    /\ task[c].pc = "booking"
    /\ LET s == task[c].slot
           last == task[c].idx >= Len(task[c].slots)
           ok == res = "success"
           on == IF task[c].best = "none" THEN s ELSE task[c].best
       IN  /\ booking_locks' = [booking_locks EXCEPT ![s].locked = FALSE,
                                                     ![s].owner = "none"]
           /\ cycle_booked' = IF ok THEN [cycle_booked EXCEPT ![on] = @ + 1]
                              ELSE cycle_booked
           /\ failed' = IF res = "failure" THEN failed \cup {s} ELSE failed
           /\ task' = IF res = "failure" /\ ~last
                      THEN [task EXCEPT ![c].pc = "loop", ![c].idx = @ + 1,
                                        ![c].slot = "none", ![c].token = FALSE,
                                        ![c].tries = 0, ![c].best = "none", ![c].waited = FALSE]
                      ELSE [task EXCEPT ![c].pc = "done", ![c].slot = "none",
                                        ![c].token = FALSE, ![c].tries = 0,
                                        ![c].best = "none", ![c].waited = FALSE,
                                        ![c].won = IF ok THEN task[c].idx ELSE @]
    /\ booking_stats' = book_slot_end(booking_stats, res)
    /\ error_counts' = handle_booking_errors(error_counts, res)
    /\ UNCHANGED <<rate, clock, rate_limiter, recent, retryVars, health,
                   delayVars, endpointVars, priorityVars, emitted,
                   runVars>>

\* on_booking_error (170-173): the failed slot's booking is tried again by a
\* direct call of book_slot
OnBookingError(s) ==
    /\ task["on_booking_error"].pc = "idle"
    /\ s \in failed
    /\ task' = [task EXCEPT !["on_booking_error"].pc = "booking",
                            !["on_booking_error"].slot = s,
                            !["on_booking_error"].tries = 1]
    /\ recent' = [recent EXCEPT ![1] = @ + 1]
    /\ booking_stats' = book_slot_begin(booking_stats)
    /\ UNCHANGED <<rate, clock, rate_limiter, booking_locks, cycle_booked,
                   failed, retryVars, healthVars, delayVars, endpointVars,
                   priorityVars, emitted,
                   runVars>>

\* rapid_book_multiple_slots (176-199) calls book_slot for a user; the slot is
\* whichever the transaction picks
RapidBook(s) ==
    /\ task["rapid_book"].pc = "idle"
    /\ task' = [task EXCEPT !["rapid_book"].pc = "booking",
                            !["rapid_book"].slot = s, !["rapid_book"].tries = 1]
    /\ recent' = [recent EXCEPT ![1] = @ + 1]
    /\ booking_stats' = book_slot_begin(booking_stats)
    /\ UNCHANGED <<rate, clock, rate_limiter, booking_locks, cycle_booked,
                   failed, retryVars, healthVars, delayVars, endpointVars,
                   priorityVars, emitted,
                   runVars>>

\* a booking started outside the cycle ends
DirectBookingEnds(t, res) ==
    /\ t \in OtherCallers
    /\ task[t].pc = "booking"
    /\ failed' = IF res = "failure" THEN failed \cup {task[t].slot} ELSE failed
    /\ task' = [task EXCEPT ![t].pc = "done", ![t].slot = "none", ![t].tries = 0]
    /\ booking_stats' = book_slot_end(booking_stats, res)
    /\ error_counts' = handle_booking_errors(error_counts, res)
    /\ UNCHANGED <<rate, clock, rate_limiter, booking_locks, cycle_booked,
                   recent, retryVars, health, delayVars, endpointVars,
                   priorityVars, emitted,
                   runVars>>

\* _book_slot ranks the slots it fetches itself and carries the transaction
\* out on the first of them (booking_manager.py 96-110)
ChooseSlot(c, b) ==
    /\ task[c].pc = "booking"
    /\ task[c].best = "none"
    /\ task' = [task EXCEPT ![c].best = b]
    /\ UNCHANGED <<rate, clock, rate_limiter, booking_locks, cycle_booked,
                   failed, recent, booking_stats, emitted, retryVars,
                   healthVars, delayVars, endpointVars, priorityVars, runVars>>

\* _book_slot raised (its handle_booking_errors did) and retry() calls it
\* again (retry_manager.py 88-121, booking_manager.py 74-79)
BookSlotAgain(t) ==
    /\ task[t].pc = "booking"
    /\ task[t].tries < MaxRetries
    /\ task' = [task EXCEPT ![t].tries = @ + 1, ![t].best = "none"]
    /\ booking_stats' = book_slot_begin(book_slot_end(booking_stats, "raise"))
    /\ error_counts' = handle_booking_errors(error_counts, "raise")
    /\ UNCHANGED <<rate, clock, rate_limiter, booking_locks, cycle_booked,
                   failed, recent, retryVars, health, delayVars, endpointVars,
                   priorityVars, emitted,
                   runVars>>

ClockTick ==
    /\ clock < MaxClock
    /\ clock' = clock + 1
    /\ recent' = [u \in 1..rate |-> IF u = 1 THEN 0 ELSE recent[u - 1]]
    /\ UNCHANGED <<rate, rate_limiter, booking_locks, task, cycle_booked,
                   failed,
                   retryVars, healthVars, delayVars, endpointVars, priorityVars,
                   booking_stats, emitted,
                   runVars>>

(***************************************************************************)
(* HealthCheck.  error_counts is a dict: a function whose domain is the    *)
(* set of names that have a count.  health holds the other fields of the   *)
(* object and the position of perform_health_check:                        *)
(*   mapping      whether config['health_check_endpoints'] is a mapping    *)
(*                (check_components iterates .items()) or, as in config.py,*)
(*                a list                                                   *)
(*   components   health_status['components']: status by component, "none" *)
(*                for a component that has no entry yet                    *)
(*   system       health_status['system']: usage in percent, or "None"     *)
(*   i, r         the endpoint being probed and the recovery attempt       *)
(* updated, recovery_runs, non200 and probed are history fields: whether   *)
(* this cycle has run update_overall_health, how often it has entered      *)
(* attempt_recovery, each component's run of consecutive non-200 responses *)
(* and the result of the latest probe of check_components; rec200 is the   *)
(* set of components whose recovery probe answered 200 in the cycle under  *)
(* way.                                                                    *)
(***************************************************************************)
NewHealth ==
    [pc |-> "idle", mapping |-> TRUE, i |-> 0, r |-> 0,
     overall |-> "UNKNOWN",
     components |-> [c \in Components |-> "none"],
     system |-> "None",
     total_checks |-> 0,
     updated |-> FALSE, recovery_runs |-> 0,
     non200 |-> [c \in Components |-> 0],
     probed |-> "none", rec200 |-> {}]

HealthAtRest ==
    /\ error_counts = NoCounts
    /\ health = NewHealth

RECURSIVE SumCounts(_, _)
SumCounts(ec, S) ==
    IF S = {} THEN 0
    ELSE LET n == CHOOSE x \in S : TRUE IN ec[n] + SumCounts(ec, S \ {n})

\* handle_component_error without the count
handle_component_error_uncounted(h, ec, c) ==
    [h |-> [h EXCEPT !.components[c] = "CRITICAL", !.non200[c] = 0],
     ec |-> ec]

\* handle_component_error (158-167)
handle_component_error(h, ec, c) ==
    [h |-> [h EXCEPT !.components[c] = "CRITICAL", !.non200[c] = 0],
     ec |-> SetCount(ec, c, GetCount(ec, c) + 1)]

\* the body of the loop of check_components for one endpoint (129-156)
check_component(h, ec, c, resp) ==
    IF resp = "200"
    THEN [h |-> [h EXCEPT !.components[c] = "HEALTHY", !.non200[c] = 0],
          ec |-> SetCount(ec, c, 0)]
    ELSE IF resp = "non200"
    THEN [h |-> [h EXCEPT !.components[c] = "DEGRADED", !.non200[c] = @ + 1],
          ec |-> SetCount(ec, c, GetCount(ec, c) + 1)]
    ELSE handle_component_error(h, ec, c)

\* update_overall_health with <= for < in the CPU test
update_overall_health_le(h, ec) ==
    LET statuses == {h.components[c] : c \in {d \in Components : h.components[d] # "none"}}
        rate_ok == IF DOMAIN ec = {} THEN 0 < ErrorRateThresholdPct
                   ELSE 100 * SumCounts(ec, DOMAIN ec)
                          < ErrorRateThresholdPct * h.total_checks * Cardinality(DOMAIN ec)
    IN  IF /\ \A st \in statuses : st = "HEALTHY"
           /\ rate_ok
           /\ h.system.cpu_usage <= UsageThresholdPct
           /\ h.system.memory_usage < UsageThresholdPct
           /\ h.system.disk_usage < UsageThresholdPct
        THEN [h EXCEPT !.overall = "HEALTHY", !.updated = TRUE]
        ELSE IF \E st \in statuses : st = "CRITICAL"
        THEN [h EXCEPT !.overall = "CRITICAL", !.updated = TRUE]
        ELSE [h EXCEPT !.overall = "DEGRADED", !.updated = TRUE]

\* update_overall_health (198-211); the error rate
\* sum / (total_checks * len) is compared with the threshold in percent
update_overall_health(h, ec) ==
    LET statuses == {h.components[c] : c \in {d \in Components : h.components[d] # "none"}}
        rate_ok == IF DOMAIN ec = {} THEN 0 < ErrorRateThresholdPct
                   ELSE 100 * SumCounts(ec, DOMAIN ec)
                          < ErrorRateThresholdPct * h.total_checks * Cardinality(DOMAIN ec)
    IN  IF /\ \A st \in statuses : st = "HEALTHY"
           /\ rate_ok
           /\ h.system.cpu_usage < UsageThresholdPct
           /\ h.system.memory_usage < UsageThresholdPct
           /\ h.system.disk_usage < UsageThresholdPct
        THEN [h EXCEPT !.overall = "HEALTHY", !.updated = TRUE]
        ELSE IF \E st \in statuses : st = "CRITICAL"
        THEN [h EXCEPT !.overall = "CRITICAL", !.updated = TRUE]
        ELSE [h EXCEPT !.overall = "DEGRADED", !.updated = TRUE]

\* attempt_recovery from endpoint number j on (213-227): the next component
\* that is not HEALTHY gets its first probe; with none left the function
\* returns and save_health_history is next
recover_from(h, j) ==
    LET rest == {m \in j..Len(Endpoints) : h.components[Endpoints[m]] \notin {"none", "HEALTHY"}}
    IN  IF rest = {} THEN [h EXCEPT !.pc = "save", !.i = 0, !.r = 0]
        ELSE [h EXCEPT !.pc = "recover", !.r = 0,
                       !.i = CHOOSE m \in rest : \A q \in rest : m <= q]

\* attempt_recovery entered whatever the overall status
after_update_always(h) ==
    recover_from([h EXCEPT !.recovery_runs = @ + 1], 1)

\* perform_health_check after update_overall_health (119-122)
after_update(h) ==
    IF h.overall # "HEALTHY"
    THEN recover_from([h EXCEPT !.recovery_runs = @ + 1], 1)
    ELSE [h EXCEPT !.pc = "save"]

\* perform_health_check up to its first await (106-111, 127-131); with
\* endpoints that are a list .items() raises and the handler at 124 ends the
\* cycle
PerformHealthCheck ==
    /\ health.pc = "idle"
    /\ health.total_checks < MaxChecks
    /\ LET h == [health EXCEPT !.total_checks = @ + 1, !.updated = FALSE,
                               !.recovery_runs = 0]
       IN  health' = IF h.mapping THEN [h EXCEPT !.pc = "probe", !.i = 1] ELSE h
    /\ UNCHANGED <<error_counts, retryVars, bookingVars, delayVars,
                   endpointVars, priorityVars,
                   runVars>>

\* the probe of the current endpoint ends (131-156)
ProbeEnds(resp) ==
    /\ health.pc = "probe"
    /\ LET x == check_component([health EXCEPT !.probed = resp], error_counts,
                                Endpoints[health.i], resp)
       IN  /\ error_counts' = x.ec
           /\ health' = IF health.i < Len(Endpoints)
                         THEN [x.h EXCEPT !.i = @ + 1]
                         ELSE [x.h EXCEPT !.pc = "system", !.i = 0]
    /\ UNCHANGED <<retryVars, bookingVars, delayVars, endpointVars,
                   priorityVars,
                   runVars>>

\* check_system_health ends (169-196), then update_overall_health and the
\* test for recovery (113-120)
CheckSystemHealth(cpu, mem, disk) ==
    /\ health.pc = "system"
    /\ health' = after_update(update_overall_health(
                     [health EXCEPT !.system = [cpu_usage |-> cpu, memory_usage |-> mem,
                                                disk_usage |-> disk]],
                     error_counts))
    /\ UNCHANGED <<error_counts, retryVars, bookingVars, delayVars,
                   endpointVars, priorityVars,
                   runVars>>

\* a recovery probe whose 200 marks the component HEALTHY and has the overall
\* status computed again
RecoveryProbeEndsHeals(resp) ==
    /\ health.pc = "recover"
    /\ health' = IF resp = "200"
                  THEN recover_from(
                           update_overall_health(
                               [health EXCEPT !.rec200 = @ \cup {Endpoints[health.i]},
                                              !.components[Endpoints[health.i]] = "HEALTHY"],
                               error_counts),
                           health.i + 1)
                  ELSE [health EXCEPT !.pc = "recover_sleep"]
    /\ UNCHANGED <<error_counts, retryVars, bookingVars, delayVars,
                   endpointVars, priorityVars,
                   runVars>>

\* a probe of attempt_recovery ends (218-226): 200 breaks out of the retries
RecoveryProbeEnds(resp) ==
    /\ health.pc = "recover"
    /\ health' = IF resp = "200"
                  THEN recover_from(
                           [health EXCEPT !.rec200 = @ \cup {Endpoints[health.i]}],
                           health.i + 1)
                  ELSE [health EXCEPT !.pc = "recover_sleep"]
    /\ UNCHANGED <<error_counts, retryVars, bookingVars, delayVars,
                   endpointVars, priorityVars,
                   runVars>>

\* the backoff sleep of attempt_recovery ends (227)
RecoverySleepEnds ==
    /\ health.pc = "recover_sleep"
    /\ health' = IF health.r + 1 < MaxRetries
                  THEN [health EXCEPT !.pc = "recover", !.r = @ + 1]
                  ELSE recover_from(health, health.i + 1)
    /\ UNCHANGED <<error_counts, retryVars, bookingVars, delayVars,
                   endpointVars, priorityVars,
                   runVars>>

\* save_health_history and update_prometheus_metrics (122-123)
SaveHealthHistory ==
    /\ health.pc = "save"
    /\ health' = [health EXCEPT !.pc = "idle", !.rec200 = {}]
    /\ UNCHANGED <<error_counts, retryVars, bookingVars, delayVars,
                   endpointVars, priorityVars,
                   runVars>>

\* record_error / record_success called by another component (243-252)
RecordError(n) ==
    /\ GetCount(error_counts, n) < MaxErrors
    /\ error_counts' = hc_record_error(error_counts, n)
    /\ UNCHANGED <<health, retryVars, bookingVars, delayVars, endpointVars,
                   priorityVars,
                   runVars>>

RecordSuccess(n) ==
    /\ GetCount(error_counts, n) > 0
    /\ error_counts' = hc_record_success(error_counts, n)
    /\ UNCHANGED <<health, retryVars, bookingVars, delayVars, endpointVars,
                   priorityVars,
                   runVars>>

NoCalc ==
    [pc |-> "idle", attempt |-> 1, retry_strategy |-> "fixed", base_delay |-> 1,
     max_delay |-> 1, k |-> 0, formula |-> -1, delay |-> -1]

DelayAtRest == calc = NoCalc

(***************************************************************************)
(* app.py: the module-level health_checker = HealthCheck(config) that the  *)
(* route /api/health_check reads.  Nothing in app.py runs a check cycle on *)
(* it.  status is the HTTP status of the latest response (0: none yet);    *)
(* bot_healthy is a history field: whether the overall status of the bot's *)
(* own HealthCheck was HEALTHY when that response was made.                *)
(***************************************************************************)
NewBot == [pc |-> "idle", is_running |-> FALSE, health_is_running |-> FALSE,
           fatal |-> FALSE]

RunAtRest == bot = NewBot

NewEndpoint == [overall |-> "UNKNOWN", status |-> 0, bot_healthy |-> FALSE]

EndpointAtRest == endpoint = NewEndpoint

\* the route handler health_check() (app.py 36-40)
HealthEndpoint ==
    /\ endpoint' = [endpoint EXCEPT
                       !.status = IF endpoint.overall = "HEALTHY" THEN 200 ELSE 503,
                       !.bot_healthy = (health.overall = "HEALTHY")]
    /\ UNCHANGED <<retryVars, bookingVars, healthVars, delayVars, priorityVars,
                   runVars>>

(***************************************************************************)
(* PriorityManager.  A slot is a record id, type, date, available_spots;   *)
(* dates and datetime.now() (pnow) are whole days.  The ids of an input    *)
(* list are the positions in it.  history is prioritization_history, its   *)
(* events reduced to the two counts, with the call that appended the event *)
(* as a history field (by); hc_errors is the count that the manager's own  *)
(* HealthCheck keeps for "prioritization".  validated_at, revalidated and  *)
(* revalidated_at are history of the validate_slots calls.  offered is the *)
(* list of slots that the callers pass in.                                 *)
(***************************************************************************)
NoPrio ==
    [pc |-> "idle", pnow |-> 1, pending |-> PrioCalls, cur |-> "none",
     offered |-> <<>>, slots |-> <<>>, validated |-> <<>>, validated_at |-> 0,
     prioritized |-> <<>>, revalidated |-> <<>>, revalidated_at |-> 0,
     history |-> <<>>, hc_errors |-> 0, outcome |-> "none", returned |-> <<>>,
     raised_in |-> "none"]

PriorityAtRest == prio = NoPrio

SlotInputs == UNION {[1..n -> SlotKinds] : n \in 0..MaxSlots}

WithIds(kinds) ==
    [i \in 1..Len(kinds) |->
        [id |-> i, type |-> kinds[i].type, date |-> kinds[i].date,
         available_spots |-> kinds[i].available_spots]]

\* the tests of validate_slots for one slot, with available_spots < 0 for <= 0
valid_slot_lenient(slot, t) ==
    /\ slot.type \in {"NACIONAL", "SCHENGEN"}
    /\ ~(slot.available_spots < 0)
    /\ ~(slot.date < t)

\* the tests of validate_slots for one slot (153-161)
valid_slot(slot, t) ==
    /\ slot.type \in {"NACIONAL", "SCHENGEN"}
    /\ ~(slot.available_spots <= 0)
    /\ ~(slot.date < t)

RECURSIVE validate_slots(_, _)
validate_slots(slots, t) ==
    IF slots = <<>> THEN <<>>
    ELSE IF valid_slot(Head(slots), t)
         THEN <<Head(slots)>> \o validate_slots(Tail(slots), t)
         ELSE validate_slots(Tail(slots), t)

\* the sort key without its two category components
sort_key_date(slot) == <<0, 0, slot.date>>

\* the key of apply_prioritization_strategy (92-96); False < True as 0 < 1
sort_key(slot) ==
    <<IF slot.type # "NACIONAL" THEN 1 ELSE 0,
      IF slot.type # "SCHENGEN" THEN 1 ELSE 0,
      slot.date>>

\* tuple comparison a < b
KeyLess(a, b) ==
    \/ a[1] < b[1]
    \/ a[1] = b[1] /\ a[2] < b[2]
    \/ a[1] = b[1] /\ a[2] = b[2] /\ a[3] < b[3]

\* sorted(): a stable sort; x goes behind every element whose key is not
\* greater than its own
RECURSIVE InsertSorted(_, _)
InsertSorted(x, sorted) ==
    IF sorted = <<>> THEN <<x>>
    ELSE IF KeyLess(sort_key(x), sort_key(Head(sorted)))
         THEN <<x>> \o sorted
         ELSE <<Head(sorted)>> \o InsertSorted(x, Tail(sorted))

RECURSIVE SortedPrefix(_, _)
SortedPrefix(slots, n) ==
    IF n = 0 THEN <<>> ELSE InsertSorted(slots[n], SortedPrefix(slots, n - 1))

apply_prioritization_strategy(slots) == SortedPrefix(slots, Len(slots))

\* handle_prioritization_error (165-168): RetryManager has no handle_error,
\* so line 167 raises AttributeError before the health record
handle_prioritization_error(q, step) ==
    [q EXCEPT !.pc = "done", !.outcome = "raised", !.raised_in = step]

\* prioritize_slots_for_slot_checker is called and awaits the security hook
\* (51-60)
PrioritizeSlots(p) ==
    /\ prio.pc \in {"idle", "done"}
    /\ p \in prio.pending
    /\ prio' = [prio EXCEPT !.pc = "security", !.pending = @ \ {p}, !.cur = p,
                            !.slots = prio.offered, !.validated = <<>>,
                            !.validated_at = 0, !.prioritized = <<>>,
                            !.revalidated = <<>>, !.revalidated_at = 0,
                            !.outcome = "none", !.returned = <<>>,
                            !.raised_in = "none"]
    /\ UNCHANGED <<retryVars, bookingVars, healthVars, delayVars, endpointVars,
                   runVars>>

\* the hook returns or raises; then validation, ranking and the event
\* (60-77), or the handler (81-83)
SecurityMeasures(out) ==
    /\ prio.pc = "security"
    /\ prio' =
         IF out # "ok" THEN handle_prioritization_error(prio, "security")
         ELSE LET v == validate_slots(prio.slots, prio.pnow)
                  r == apply_prioritization_strategy(v)
              IN  [prio EXCEPT !.pc = "report_ok", !.validated = v,
                               !.validated_at = prio.pnow, !.prioritized = r,
                               !.history = Append(@, [input_count |-> Len(prio.slots),
                                                      output_count |-> Len(r),
                                                      by |-> prio.cur])]
    /\ UNCHANGED <<retryVars, bookingVars, healthVars, delayVars, endpointVars,
                   runVars>>

\* health_check.record_success returns and the list is returned (78-79)
ReturnPrioritized ==
    /\ prio.pc = "report_ok"
    /\ prio' = [prio EXCEPT !.pc = "done", !.hc_errors = 0,
                            !.outcome = "returned", !.returned = prio.prioritized]
    /\ UNCHANGED <<retryVars, bookingVars, healthVars, delayVars, endpointVars,
                   runVars>>

\* validate_slots called on the list it returned
Revalidate ==
    /\ prio.pc = "done"
    /\ prio.outcome = "returned"
    /\ prio.revalidated_at = 0
    /\ prio' = [prio EXCEPT !.revalidated = validate_slots(prio.validated, prio.pnow),
                            !.revalidated_at = prio.pnow]
    /\ UNCHANGED <<retryVars, bookingVars, healthVars, delayVars, endpointVars,
                   runVars>>

\* datetime.now() reaches the next day
DayPasses ==
    /\ prio.pnow < MaxDay
    /\ prio' = [prio EXCEPT !.pnow = @ + 1]
    /\ UNCHANGED <<retryVars, bookingVars, healthVars, delayVars, endpointVars,
                   runVars>>

(***************************************************************************)
(* CircuitBreaker.  The record holds the object's fields; opened_at and    *)
(* opens are history fields: when the state last became OPEN, and how many *)
(* CLOSED -> OPEN transitions happened since the failure count was last 0. *)
(***************************************************************************)
NewBreaker ==
    [state |-> "CLOSED", failures |-> 0, last_failure_time |-> NoTime,
     opened_at |-> NoTime, opens |-> 0]

\* record_success that leaves the failure count alone
record_success_keep(b) ==
    [b EXCEPT !.state = "CLOSED", !.opens = 0]

record_success(b) ==
    [b EXCEPT !.failures = 0, !.state = "CLOSED", !.opens = 0]

record_failure(b, t) ==
    LET f == b.failures + 1
        opening == f >= failure_threshold
    IN  [state |-> IF opening THEN "OPEN" ELSE b.state,
         failures |-> f,
         last_failure_time |-> t,
         opened_at |-> IF opening /\ b.state # "OPEN" THEN t ELSE b.opened_at,
         opens |-> IF opening /\ b.state = "CLOSED" THEN b.opens + 1 ELSE b.opens]

\* can_request with the timeout test off by one (>= for >)
can_request_ge(b, t) ==
    IF b.state = "CLOSED" THEN [ans |-> TRUE, b |-> b]
    ELSE IF b.state = "OPEN" /\ b.last_failure_time # NoTime
            /\ t - b.last_failure_time >= reset_timeout
         THEN [ans |-> TRUE, b |-> [b EXCEPT !.state = "HALF_OPEN"]]
         ELSE [ans |-> b.state # "OPEN", b |-> b]

\* can_request(): the answer and the breaker after the call
can_request(b, t) ==
    IF b.state = "CLOSED" THEN [ans |-> TRUE, b |-> b]
    ELSE IF b.state = "OPEN" /\ b.last_failure_time # NoTime
            /\ t - b.last_failure_time > reset_timeout
         THEN [ans |-> TRUE, b |-> [b EXCEPT !.state = "HALF_OPEN"]]
         ELSE [ans |-> b.state # "OPEN", b |-> b]

(***************************************************************************)
(* RetryManager.calculate_delay and fibonacci.  k in 0..JitterSteps is the *)
(* draw of random.uniform(0, 0.1 * delay): k = 0 no jitter, k = JitterSteps*)
(* the largest.                                                            *)
(***************************************************************************)
RECURSIVE FibLoop(_, _, _)
FibLoop(a, b, i) == IF i <= 0 THEN b ELSE FibLoop(b, a + b, i - 1)

fibonacci(n) == IF n <= 1 THEN 1 ELSE FibLoop(1, 1, n - 2)

\* formula_delay with the exponent of the exponential strategy off by one
formula_delay_exp_attempt(attempt, o) ==
    IF o.retry_strategy = "linear" THEN o.base_delay * attempt
    ELSE IF o.retry_strategy = "exponential" THEN o.base_delay * Pow2(attempt)
    ELSE IF o.retry_strategy = "fibonacci" THEN fibonacci(attempt) * o.base_delay
    ELSE o.base_delay

formula_delay(attempt, o) ==
    IF o.retry_strategy = "linear" THEN o.base_delay * attempt
    ELSE IF o.retry_strategy = "exponential" THEN o.base_delay * Pow2(attempt - 1)
    ELSE IF o.retry_strategy = "fibonacci" THEN fibonacci(attempt) * o.base_delay
    ELSE o.base_delay

\* calculate_delay without the clamp to max_delay
calculate_delay_unclamped(attempt, o, k) ==
    LET delay == formula_delay(attempt, o)
        jitter == (k * delay) \div (10 * JitterSteps)
    IN  delay + jitter

calculate_delay(attempt, o, k) ==
    LET delay == formula_delay(attempt, o)
        jitter == (k * delay) \div (10 * JitterSteps)
    IN  Min(delay + jitter, o.max_delay)

(***************************************************************************)
(* calculate_delay called on its own: any attempt number, strategy name,   *)
(* base_delay, max_delay and jitter draw.  formula is the value of the     *)
(* local delay before the jitter is added.                                 *)
(***************************************************************************)
CalculateDelay ==
    /\ calc.pc = "called"
    /\ calc' = [calc EXCEPT !.pc = "returned",
                            !.formula = formula_delay(calc.attempt, calc),
                            !.delay = calculate_delay(calc.attempt, calc, calc.k)]
    /\ UNCHANGED <<retryVars, bookingVars, healthVars, endpointVars,
                   priorityVars,
                   runVars>>

(***************************************************************************)
(* One retry() invocation.  gate_ans, gate_age and gate_state are history: *)
(* the answer of the call's latest can_request(), and the age of the OPEN  *)
(* state and the breaker state that it found.  trace is the history of the *)
(* call's failed attempts and sleeps, in order: "T" an attempt ended by    *)
(* the transient handler, "E" one ended by the general handler, "S" a      *)
(* backoff sleep begun; slept is the length of the latest sleep;           *)
(* ok_reports and err_reports count the call's record_success and          *)
(* record_error reports to the health check.                               *)
(* complete = FALSE is a call whose merged options are the shipped         *)
(* configuration alone, which defines max_retries and retry_strategy but   *)
(* none of timeout, base_delay, max_delay.                                 *)
(***************************************************************************)
IdleCall ==
    [pc |-> "idle", name |-> "A", max_retries |-> 1, complete |-> TRUE,
     retry_strategy |-> "exponential", base_delay |-> 1, max_delay |-> 1,
     attempts |-> 0, last_error |-> "None", wake |-> 0,
     outcome |-> "none", exc_attempts |-> 0, exc_last_error |-> "None",
     final_err |-> "None", iters |-> 0, refusals |-> 0, sec_calls |-> 0,
     sec_fails |-> 0, invocations |-> 0, sleeps |-> 0,
     gate_ans |-> TRUE, gate_age |-> -1, gate_state |-> "none",
     trace |-> <<>>, slept |-> 0, ok_reports |-> 0, err_reports |-> 0]

\* the general handler sleeping the delay before its test for the last attempt
OnOtherErrorSleepFirst(l, b, t, k, err) ==
    LET l1 == [l EXCEPT !.last_error = err, !.attempts = @ + 1,
                        !.trace = Append(@, "E")]
        b1 == record_failure(b, t)
    IN  IF ~l.complete
        THEN [l |-> [l1 EXCEPT !.pc = "done", !.outcome = "KeyError"], b |-> b1]
        ELSE [l |-> [l1 EXCEPT !.pc = "sleeping", !.sleeps = @ + 1,
                               !.trace = Append(@, "S"),
                               !.slept = calculate_delay(l1.attempts, l, k),
                               !.wake = t + calculate_delay(l1.attempts, l, k)],
              b |-> b1]

\* the general handler without its attempts += 1
OnOtherErrorNoCount(l, b, t, k, err) ==
    LET l1 == [l EXCEPT !.last_error = err, !.trace = Append(@, "E")]
        b1 == record_failure(b, t)
    IN  IF ~l.complete
        THEN [l |-> [l1 EXCEPT !.pc = "done", !.outcome = "KeyError"], b |-> b1]
        ELSE IF l1.attempts >= l.max_retries
        THEN [l |-> [l1 EXCEPT !.pc = "report_err"], b |-> b1]
        ELSE [l |-> [l1 EXCEPT !.pc = "sleeping", !.sleeps = @ + 1,
                               !.trace = Append(@, "S"),
                               !.slept = calculate_delay(l1.attempts + 1, l, k),
                               !.wake = t + calculate_delay(l1.attempts + 1, l, k)],
              b |-> b1]

\* except Exception (lines 102-115): count, record, compute the delay, then
\* break or sleep
OnOtherError(l, b, t, k, err) ==
    LET l1 == [l EXCEPT !.last_error = err, !.attempts = @ + 1,
                        !.trace = Append(@, "E")]
        b1 == record_failure(b, t)
    IN  IF ~l.complete
        THEN [l |-> [l1 EXCEPT !.pc = "done", !.outcome = "KeyError"], b |-> b1]
        ELSE IF l1.attempts >= l.max_retries
        THEN [l |-> [l1 EXCEPT !.pc = "report_err"], b |-> b1]
        ELSE [l |-> [l1 EXCEPT !.pc = "sleeping", !.sleeps = @ + 1,
                               !.trace = Append(@, "S"),
                               !.slept = calculate_delay(l1.attempts, l, k),
                               !.wake = t + calculate_delay(l1.attempts, l, k)],
              b |-> b1]

\* the loop head with the security hook applied before the breaker is asked
GateHookFirst(l, b, t, k) ==
    LET r == can_request(b, t)
        l1 == [l EXCEPT !.iters = @ + 1, !.gate_ans = r.ans,
                        !.gate_age = IF b.state = "OPEN" THEN t - b.opened_at ELSE -1,
                        !.gate_state = b.state]
    IN  IF r.ans
        THEN [l |-> [l1 EXCEPT !.pc = "security"], b |-> r.b]
        ELSE OnOtherError([l1 EXCEPT !.refusals = @ + 1, !.sec_calls = @ + 1,
                                     !.final_err = "CircuitOpen"],
                          r.b, t, k, "CircuitOpen")

\* one pass of the loop head up to the first await (lines 79-84)
Gate(l, b, t, k) ==
    LET r == can_request(b, t)
        l1 == [l EXCEPT !.iters = @ + 1, !.gate_ans = r.ans,
                        !.gate_age = IF b.state = "OPEN" THEN t - b.opened_at ELSE -1,
                        !.gate_state = b.state]
    IN  IF r.ans
        THEN [l |-> [l1 EXCEPT !.pc = "security"], b |-> r.b]
        ELSE OnOtherError([l1 EXCEPT !.refusals = @ + 1, !.final_err = "CircuitOpen"],
                          r.b, t, k, "CircuitOpen")

\* the transient handler without its attempts += 1
OnTransientErrorNoCount(l, b, t, k, err) ==
    LET l1 == [l EXCEPT !.last_error = err, !.trace = Append(@, "T")]
        b1 == record_failure(b, t)
    IN  IF l1.attempts < l.max_retries
        THEN Gate(l1, b1, t, k)
        ELSE [l |-> [l1 EXCEPT !.pc = "report_err"], b |-> b1]

\* except (TimeoutError, ClientError, ServerTimeoutError) (lines 95-100), then
\* the loop test and, if it passes, the next loop head
OnTransientError(l, b, t, k, err) ==
    LET l1 == [l EXCEPT !.last_error = err, !.attempts = @ + 1,
                        !.trace = Append(@, "T")]
        b1 == record_failure(b, t)
    IN  IF l1.attempts < l.max_retries
        THEN Gate(l1, b1, t, k)
        ELSE [l |-> [l1 EXCEPT !.pc = "report_err"], b |-> b1]

Put(p, r) ==
    /\ call' = [call EXCEPT ![p] = r.l]
    /\ cb' = r.b

\* retry(fn, operation_name, options) is called and runs to its first await
Retry(p, nm, mr, cpl, k) ==
    /\ call[p].pc = "idle"
    /\ \E st \in RetryStrategies, bd \in RetryBaseDelays, md \in RetryMaxDelays :
         Put(p, Gate([IdleCall EXCEPT !.name = nm, !.max_retries = mr,
                                      !.complete = cpl, !.retry_strategy = st,
                                      !.base_delay = bd, !.max_delay = md],
                     cb, now, k))
    /\ UNCHANGED <<now, failure_threshold, reset_timeout, bookingVars,
                   healthVars, delayVars, endpointVars, priorityVars,
                   runVars>>

\* apply_security_measures() returns or raises (line 84); with no 'timeout'
\* option line 87 raises KeyError before the operation runs
Security(p, out, k) ==
    /\ call[p].pc = "security"
    /\ LET l1 == [call[p] EXCEPT !.sec_calls = @ + 1]
       IN  IF out # "ok"
           THEN Put(p, OnOtherError([l1 EXCEPT !.sec_fails = @ + 1, !.final_err = out],
                                    cb, now, k, out))
           ELSE IF ~l1.complete
           THEN Put(p, OnOtherError([l1 EXCEPT !.final_err = "KeyError"],
                                    cb, now, k, "KeyError"))
           ELSE Put(p, [l |-> [l1 EXCEPT !.pc = "invoke"], b |-> cb])
    /\ UNCHANGED <<now, failure_threshold, reset_timeout, bookingVars,
                   healthVars, delayVars, endpointVars, priorityVars,
                   runVars>>

\* the wrapped operation ends under wait_for (lines 86-115)
Invoke(p, out, k) ==
    /\ call[p].pc = "invoke"
    /\ LET l1 == [call[p] EXCEPT !.invocations = @ + 1]
       IN  IF out = "ok"
           THEN Put(p, [l |-> [l1 EXCEPT !.pc = "report_ok"], b |-> record_success(cb)])
           ELSE IF out = "TimeoutError"
           THEN Put(p, OnTransientError([l1 EXCEPT !.final_err = out], cb, now, k, out))
           ELSE Put(p, OnOtherError([l1 EXCEPT !.final_err = out], cb, now, k, out))
    /\ UNCHANGED <<now, failure_threshold, reset_timeout, bookingVars,
                   healthVars, delayVars, endpointVars, priorityVars,
                   runVars>>

\* asyncio.sleep(retry_delay) returns (line 115); the loop goes round
Wake(p, k) ==
    /\ call[p].pc = "sleeping"
    /\ now >= call[p].wake
    /\ Put(p, Gate(call[p], cb, now, k))
    /\ UNCHANGED <<now, failure_threshold, reset_timeout, bookingVars,
                   healthVars, delayVars, endpointVars, priorityVars,
                   runVars>>

\* health_check.record_success returns, retry returns the result (92-93)
ReturnResult(p) ==
    /\ call[p].pc = "report_ok"
    /\ call' = [call EXCEPT ![p].pc = "done", ![p].outcome = "returned",
                            ![p].ok_reports = @ + 1]
    /\ error_counts' = hc_record_success(error_counts, call[p].name)
    /\ UNCHANGED <<now, failure_threshold, reset_timeout, cb, bookingVars,
                   health,
                   delayVars, endpointVars, priorityVars,
                   runVars>>

\* health_check.record_error returns, retry raises RetryError (117-121)
RaiseExhausted(p) ==
    /\ call[p].pc = "report_err"
    /\ call' = [call EXCEPT ![p].pc = "done", ![p].outcome = "RetryError",
                            ![p].exc_attempts = call[p].attempts,
                            ![p].exc_last_error = call[p].last_error,
                            ![p].err_reports = @ + 1]
    /\ error_counts' = hc_record_error(error_counts, call[p].name)
    /\ UNCHANGED <<now, failure_threshold, reset_timeout, cb, bookingVars,
                   health,
                   delayVars, endpointVars, priorityVars,
                   runVars>>

Tick ==
    /\ now < MaxTime
    /\ now' = now + 1
    /\ UNCHANGED <<failure_threshold, reset_timeout, cb, call, bookingVars,
                   healthVars, delayVars, endpointVars, priorityVars,
                   runVars>>

InitRetry ==
    /\ now = 1
    /\ failure_threshold \in Thresholds
    /\ reset_timeout \in ResetTimeouts
    /\ cb = NewBreaker
    /\ call = [p \in Calls |-> IdleCall]
    /\ BookingAtRest
    /\ HealthAtRest
    /\ DelayAtRest
    /\ EndpointAtRest
    /\ RunAtRest
    /\ PriorityAtRest

NextRetry ==
    \/ \E p \in Calls, nm \in OpNames, mr \in 1..MaxRetries, cpl \in BOOLEAN,
          k \in 0..JitterSteps : Retry(p, nm, mr, cpl, k)
    \/ \E p \in Calls, out \in SecOutcomes, k \in 0..JitterSteps : Security(p, out, k)
    \/ \E p \in Calls, out \in OpOutcomes, k \in 0..JitterSteps : Invoke(p, out, k)
    \/ \E p \in Calls, k \in 0..JitterSteps : Wake(p, k)
    \/ \E p \in Calls : ReturnResult(p)
    \/ \E p \in Calls : RaiseExhausted(p)
    \/ Tick

SpecRetry == InitRetry /\ [][NextRetry]_vars

RetryAtRest ==
    /\ now = 1
    /\ failure_threshold = CHOOSE x \in Thresholds : \A y \in Thresholds : x <= y
    /\ reset_timeout = CHOOSE x \in ResetTimeouts : \A y \in ResetTimeouts : x <= y
    /\ cb = NewBreaker
    /\ call = [p \in Calls |-> IdleCall]

(***************************************************************************)
(* VFSBookingBot.run and stop.  is_running is the bot's flag and           *)
(* health_is_running the is_running flag of its HealthCheck.  run awaits   *)
(* health_check.start() itself (252), and start() is the polling loop of   *)
(* HealthCheck (93-98): run is at "health_poll" for as long as that loop    *)
(* goes on, and the lines after 252 follow its return.                     *)
(***************************************************************************)
\* run is called (247-250)
BotRun ==
    /\ bot.pc = "idle"
    /\ bot' = [bot EXCEPT !.pc = "initialize"]
    /\ UNCHANGED <<retryVars, bookingVars, healthVars, delayVars, endpointVars,
                   priorityVars>>

\* initialize returns or raises (250-251, 269-270)
InitializeEnds(out) ==
    /\ bot.pc = "initialize"
    /\ bot' = IF out = "ok"
              THEN [bot EXCEPT !.pc = "health_start", !.is_running = TRUE]
              ELSE [bot EXCEPT !.pc = "stop", !.fatal = TRUE]
    /\ UNCHANGED <<retryVars, bookingVars, healthVars, delayVars, endpointVars,
                   priorityVars>>

\* await self.health_check.start() (252): run enters HealthCheck.start (93-96)
HealthStart ==
    /\ bot.pc = "health_start"
    /\ bot' = [bot EXCEPT !.pc = "health_poll", !.health_is_running = TRUE]
    /\ UNCHANGED <<retryVars, bookingVars, healthVars, delayVars, endpointVars,
                   priorityVars>>

\* one more turn of the loop of HealthCheck.start (96-98): the test of
\* is_running after the sleep, then perform_health_check
HealthPoll ==
    /\ bot.pc = "health_poll"
    /\ bot.health_is_running
    /\ PerformHealthCheck

\* stop (274-290), from the finally clause of run (271-272); run returns
BotStop ==
    /\ bot.pc = "stop"
    /\ bot' = [bot EXCEPT !.pc = "returned", !.is_running = FALSE,
                          !.health_is_running = FALSE]
    /\ UNCHANGED <<retryVars, bookingVars, healthVars, delayVars, endpointVars,
                   priorityVars>>

InitDelay ==
    /\ \E n \in 1..MaxAttempt, st \in DelayStrategies, bd \in DelayBaseDelays,
          md \in DelayMaxDelays, k \in 0..JitterSteps :
         calc = [NoCalc EXCEPT !.pc = "called", !.attempt = n,
                               !.retry_strategy = st, !.base_delay = bd,
                               !.max_delay = md, !.k = k]
    /\ RetryAtRest
    /\ BookingAtRest
    /\ HealthAtRest
    /\ EndpointAtRest
    /\ RunAtRest
    /\ PriorityAtRest

NextDelay == CalculateDelay

SpecDelay == InitDelay /\ [][NextDelay]_vars

InitHealth ==
    /\ error_counts = NoCounts
    /\ \E mp \in BOOLEAN : health = [NewHealth EXCEPT !.mapping = mp]
    /\ RetryAtRest
    /\ BookingAtRest
    /\ DelayAtRest
    /\ EndpointAtRest
    /\ RunAtRest
    /\ PriorityAtRest

NextHealth ==
    \/ PerformHealthCheck
    \/ \E resp \in ProbeResults : ProbeEnds(resp)
    \/ \E cpu \in UsageLevels, mem \in UsageLevels, disk \in UsageLevels :
         CheckSystemHealth(cpu, mem, disk)
    \/ \E resp \in ProbeResults : RecoveryProbeEnds(resp)
    \/ RecoverySleepEnds
    \/ SaveHealthHistory
    \/ \E n \in Reporters : RecordError(n)
    \/ \E n \in Reporters : RecordSuccess(n)
    \/ HealthEndpoint

SpecHealth == InitHealth /\ [][NextHealth]_vars

InitRun == InitHealth

NextRun ==
    \/ BotRun
    \/ \E out \in {"ok", "raise"} : InitializeEnds(out)
    \/ HealthStart
    \/ HealthPoll
    \/ \E resp \in ProbeResults : ProbeEnds(resp)
    \/ \E cpu \in UsageLevels, mem \in UsageLevels, disk \in UsageLevels :
         CheckSystemHealth(cpu, mem, disk)
    \/ \E resp \in ProbeResults : RecoveryProbeEnds(resp)
    \/ RecoverySleepEnds
    \/ SaveHealthHistory
    \/ BotStop

\* the event loop runs every coroutine that is ready
SpecRun == InitRun /\ [][NextRun]_vars /\ WF_vars(NextRun)

InitPriority ==
    /\ \E kinds \in SlotInputs : prio = [NoPrio EXCEPT !.offered = WithIds(kinds)]
    /\ RetryAtRest
    /\ BookingAtRest
    /\ HealthAtRest
    /\ DelayAtRest
    /\ EndpointAtRest
    /\ RunAtRest

NextPriority ==
    \/ \E p \in PrioCalls : PrioritizeSlots(p)
    \/ \E out \in SecOutcomes : SecurityMeasures(out)
    \/ ReturnPrioritized
    \/ Revalidate
    \/ DayPasses

SpecPriority == InitPriority /\ [][NextPriority]_vars

Init ==
    /\ rate \in Rates
    /\ clock = 0
    /\ rate_limiter = NewLimiter
    /\ booking_locks = [s \in SlotIds |-> NoLock]
    /\ task = [t \in Tasks |-> IdleTask]
    /\ cycle_booked = [s \in SlotIds |-> 0]
    /\ failed = {}
    /\ recent = [u \in 1..rate |-> 0]
    /\ booking_stats = NoStats
    /\ emitted = <<>>
    /\ RetryAtRest
    /\ HealthAtRest
    /\ DelayAtRest
    /\ EndpointAtRest
    /\ RunAtRest
    /\ PriorityAtRest

Next ==
    \/ \E c \in Cycles, list \in SlotLists : StartCycle(c, list, <<"u1">>)
    \/ \E c \in Cycles : AcquireLock(c)
    \/ \E c \in Cycles : LockGranted(c)
    \/ \E c \in Cycles : AcquireToken(c)
    \/ \E c \in Cycles, res \in BookingResults : BookingEnds(c, res)
    \/ \E s \in SlotIds : OnBookingError(s)
    \/ \E s \in SlotIds : RapidBook(s)
    \/ \E t \in OtherCallers, res \in BookingResults : DirectBookingEnds(t, res)
    \/ ClockTick

Spec == Init /\ [][Next]_vars

\* time goes on past MaxClock: the origin of the clock is moved instead, which
\* leaves every difference the limiter computes as it would be (a bucket of
\* at most rate <= MaxClock units is empty after MaxClock units of time)
ClockShift ==
    /\ clock = MaxClock
    /\ rate_limiter' = [rate_limiter EXCEPT !.last_check = Max(@ - 1, 0)]
    /\ recent' = [u \in 1..rate |-> IF u = 1 THEN 0 ELSE recent[u - 1]]
    /\ UNCHANGED <<rate, clock, booking_locks, task, cycle_booked, failed,
                   booking_stats, emitted, retryVars, healthVars, delayVars,
                   endpointVars, priorityVars, runVars>>

\* two overlapping cycles alone
NextLocks ==
    \/ \E c \in Cycles, list \in SlotLists : StartCycle(c, list, <<"u1">>)
    \/ \E c \in Cycles : AcquireLock(c)
    \/ \E c \in Cycles : LockGranted(c)
    \/ \E c \in Cycles : AcquireToken(c)
    \/ \E c \in Cycles, res \in BookingResults : BookingEnds(c, res)
    \/ ClockTick
    \/ ClockShift

\* the event loop runs a cycle that can go on, booking attempts end, and
\* time passes
SpecLocks ==
    /\ Init
    /\ [][NextLocks]_vars
    /\ \A c \in Cycles :
         /\ WF_vars(AcquireLock(c))
         /\ WF_vars(LockGranted(c))
         /\ WF_vars(AcquireToken(c))
         /\ WF_vars(\E res \in BookingResults : BookingEnds(c, res))
    /\ WF_vars(ClockTick \/ ClockShift)

\* one booking cycle with every outcome of its first part, beside a booking
\* made by rapid_book_multiple_slots
NextCycle ==
    \/ \E list \in SlotLists \cup {<<>>}, users \in UserLists :
          StartCycle("k1", list, users)
    \/ AcquireLock("k1")
    \/ AcquireToken("k1")
    \/ \E res \in BookingResults : BookingEnds("k1", res)
    \/ \E s \in SlotIds : RapidBook(s)
    \/ \E res \in BookingResults : DirectBookingEnds("rapid_book", res)
    \/ \E t \in {"k1", "rapid_book"} : BookSlotAgain(t)
    \/ \E b \in SlotIds : ChooseSlot("k1", b)
    \/ ClockTick

SpecCycle == Init /\ [][NextCycle]_vars

(***************************************************************************)
(* Properties of the booking orchestration.                                *)
(***************************************************************************)
InCriticalSection(c, s) ==
    /\ c \in Cycles
    /\ task[c].pc \in {"limiter", "booking"}
    /\ task[c].slot = s

RECURSIVE SumRecent(_)
SumRecent(n) == IF n <= 0 THEN 0 ELSE recent[n] + SumRecent(n - 1)

\* C1: for every slot id at most one cycle is inside the critical section of
\* the slot loop (between taking the slot's lock and releasing it), that cycle
\* is the one holding the lock, and a cycle that found the lock held is waiting.
C1_OneAttemptPerSlotInCriticalSection ==
    \A s \in SlotIds :
        /\ Cardinality({c \in Cycles : InCriticalSection(c, s)}) <= 1
        /\ \A c \in Cycles :
             InCriticalSection(c, s)
                => booking_locks[s].locked /\ booking_locks[s].owner = c

C1_Witness ==
    \E s \in SlotIds, c \in Cycles, d \in Cycles :
        /\ c # d
        /\ task[c].pc = "booking" /\ task[c].slot = s
        /\ task[d].pc = "waitlock" /\ task[d].slot = s

\* C2: the booking attempts that overlapping cycles make for one slot id never
\* give two successful bookings for that slot id.
C2_AtMostOneBookingPerSlot ==
    \A s \in SlotIds : cycle_booked[s] <= 1

\* C3: the number of booking attempts started within one second (rate clock
\* units) never exceeds rate_limit_per_second.
C3_RateNeverExceeded ==
    SumRecent(rate) <= rate

\* C4: every booking transaction in progress, whichever path started it, holds
\* its slot's lock and has taken a unit of the shared rate limiter.
C4_EveryAttemptLockedAndLimited ==
    \A t \in Tasks :
        task[t].pc = "booking"
            => booking_locks[task[t].slot].owner = t /\ task[t].token

(***************************************************************************)
(* Properties of the retry engine and its circuit breaker.                 *)
(***************************************************************************)

\* C5: once the recorded failures reach failure_threshold the breaker has made
\* exactly one CLOSED -> OPEN transition (none before), and every can_request()
\* that finds the breaker OPEN no more than reset_timeout after it opened
\* answers false.
C5_OpenBlocksUntilTimeout ==
    /\ cb.opens = IF cb.failures >= failure_threshold THEN 1 ELSE 0
    /\ \A p \in Calls :
         call[p].gate_age \in 0..reset_timeout => ~call[p].gate_ans

C5_Witness ==
    /\ cb.state = "OPEN"
    /\ cb.failures > failure_threshold
    /\ \E p \in Calls : call[p].gate_age \in 0..reset_timeout /\ ~call[p].gate_ans

C7_EndsInExhaustion ==
    \A p \in Calls :
        call[p].pc = "done" /\ call[p].outcome # "returned"
            => /\ call[p].outcome = "RetryError"
               /\ call[p].exc_attempts = call[p].max_retries
               /\ call[p].exc_last_error = call[p].final_err

\* C8: a retry() call that can_request() has refused has ended at once with a
\* circuit-open error of its own kind: it is not sleeping a backoff delay, not
\* in a further iteration and not on its way to the exhaustion error.
C8_RefusalFailsFast ==
    \A p \in Calls :
        call[p].refusals > 0
            => call[p].pc = "done" /\ call[p].outcome = "CircuitOpenError"

\* C9: the security hook and the operation run only in iterations where
\* can_request() answered true: of the iterations begun, the refused ones
\* account for no hook call, and the operation runs only after a hook call
\* that did not raise.
C9_NoHookNoOpWhenRefused ==
    \A p \in Calls :
        /\ call[p].sec_calls + call[p].refusals <= call[p].iters
        /\ call[p].invocations + call[p].sec_fails <= call[p].sec_calls

C9_Witness ==
    \E p \in Calls :
        /\ call[p].refusals >= 1
        /\ call[p].invocations >= 1
        /\ call[p].iters = call[p].refusals + call[p].sec_calls

\* C10: the breaker that answers can_request() for an operation name is
\* untouched by retries of other names: while no retry() of name n has begun,
\* can_request() for n answers true, as a new breaker does.
C10_BreakerPerOperation ==
    \A n \in OpNames :
        (\A q \in Calls : call[q].pc # "idle" => call[q].name # n)
            => can_request(cb, now).ans

\* C11: while the breaker is HALF_OPEN (the probe that was let through has had
\* neither success nor failure recorded) every further can_request() answers
\* false, whichever retry() call makes it.
C11_HalfOpenAdmitsOneProbe ==
    \A p \in Calls :
        call[p].gate_state = "HALF_OPEN" => ~call[p].gate_ans

C14_FormulaPerStrategy ==
    calc.pc = "returned"
        => /\ calc.retry_strategy = "linear"
                => calc.formula = calc.base_delay * calc.attempt
           /\ calc.retry_strategy = "exponential"
                => calc.formula = calc.base_delay * 2 ^ (calc.attempt - 1)
           /\ calc.retry_strategy \notin {"linear", "exponential", "fibonacci"}
                => calc.formula = calc.base_delay

C14_Witness ==
    /\ calc.pc = "returned"
    /\ calc.retry_strategy = "exponential"
    /\ calc.attempt >= 3
    /\ calc.formula = 4 * calc.base_delay

\* C15: for the fibonacci strategy the delay before jitter for attempt n is
\* base_delay * fib(n) with fib(0) = fib(1) = 1 and
\* fib(k) = fib(k-1) + fib(k-2): multipliers 1, 2, 3, 5 for attempts 1..4.
C15_FibonacciMultipliers ==
    LET fib[j \in 0..MaxAttempt] == IF j <= 1 THEN 1 ELSE fib[j - 1] + fib[j - 2]
    IN  calc.pc = "returned" /\ calc.retry_strategy = "fibonacci"
            => calc.formula = calc.base_delay * fib[calc.attempt]

\* C16: for every attempt number and strategy the delay returned lies between
\* min(formula, max_delay) and min(1.1 * formula, max_delay), and so never
\* exceeds max_delay.
C16_DelayWithinJitterAndClamp ==
    calc.pc = "returned"
        => /\ 10 * calc.delay >= Min(10 * calc.formula, 10 * calc.max_delay)
           /\ 10 * calc.delay <= Min(11 * calc.formula, 10 * calc.max_delay)
           /\ calc.delay <= calc.max_delay

C16_Witness ==
    /\ calc.pc = "returned"
    /\ calc.formula < calc.max_delay
    /\ calc.delay = calc.max_delay
    /\ calc.k > 0

(***************************************************************************)
(* Properties of the health check cycle.                                   *)
(***************************************************************************)

\* C17: the step that runs update_overall_health leaves overall HEALTHY
\* exactly when every component with a status is HEALTHY, the error rate is
\* below its threshold and CPU, memory and disk usage are each below theirs;
\* otherwise CRITICAL if some component is CRITICAL, and DEGRADED in all
\* remaining cases.
C17_OverallHealthRule ==
    [][health.pc = "system" /\ health'.pc # "system"
         => LET known == {c \in Components : health'.components[c] # "none"}
                names == DOMAIN error_counts'
                rate_below ==
                    \/ names = {}
                    \/ 100 * SumCounts(error_counts', names)
                         < ErrorRateThresholdPct * health'.total_checks * Cardinality(names)
                healthy ==
                    /\ \A c \in known : health'.components[c] = "HEALTHY"
                    /\ rate_below
                    /\ health'.system.cpu_usage < UsageThresholdPct
                    /\ health'.system.memory_usage < UsageThresholdPct
                    /\ health'.system.disk_usage < UsageThresholdPct
            IN  /\ health'.updated
                /\ (health'.overall = "HEALTHY") <=> healthy
                /\ ~healthy =>
                     ((health'.overall = "CRITICAL")
                        <=> \E c \in known : health'.components[c] = "CRITICAL")
                /\ health'.overall \in {"HEALTHY", "CRITICAL", "DEGRADED"}]_vars

C17_Witness ==
    /\ health.updated
    /\ health.pc = "save"
    /\ health.overall = "DEGRADED"
    /\ \A c \in Components : health.components[c] = "HEALTHY"
    /\ health.system.cpu_usage >= UsageThresholdPct

\* C18: once a component's probe has returned a non-200 status in
\* ProbeFailureThreshold consecutive check cycles, the overall status that
\* the cycle computes is CRITICAL.
C18_FiveNon200GiveCritical ==
    \A c \in Components :
        health.updated /\ health.non200[c] >= ProbeFailureThreshold
            => health.overall = "CRITICAL"

\* C19: in every health-check cycle attempt_recovery runs at most once, only
\* after update_overall_health has run in that cycle, and, by the time the
\* cycle saves its history, exactly when the overall status is not HEALTHY.
C19_RecoveryIffNotHealthy ==
    /\ health.recovery_runs <= 1
    /\ health.recovery_runs = 1 => health.updated /\ health.overall # "HEALTHY"
    /\ health.pc \in {"recover", "recover_sleep"} => health.recovery_runs = 1
    /\ health.pc = "save"
         => /\ health.updated
            /\ (health.recovery_runs = 1) <=> (health.overall # "HEALTHY")

C19_Witness ==
    /\ health.pc = "save"
    /\ health.recovery_runs = 1
    /\ health.overall = "CRITICAL"
    /\ health.total_checks >= 2

\* C20: the probe of an endpoint in check_components sets that component
\* HEALTHY and its error count to 0 on a 200 response, DEGRADED with the count
\* up by 1 on a non-200 response, CRITICAL with the count up by 1 on a timeout
\* or exception; every other name's error count is left as it was.
C20_ProbeSetsStatusAndCount ==
    [][health.pc = "probe" /\ health' # health
         => LET c == Endpoints[health.i]
                resp == health'.probed
                before == GetCount(error_counts, c)
                after == GetCount(error_counts', c)
            IN  /\ DOMAIN error_counts' = DOMAIN error_counts \cup {c}
                /\ resp = "200"
                      => health'.components[c] = "HEALTHY" /\ after = 0
                /\ resp = "non200"
                      => health'.components[c] = "DEGRADED" /\ after = before + 1
                /\ resp \in {"Timeout", "Exception"}
                      => health'.components[c] = "CRITICAL" /\ after = before + 1
                /\ \A d \in DOMAIN error_counts \ {c} :
                     error_counts'[d] = error_counts[d]
                /\ \A d \in Components \ {c} :
                     health'.components[d] = health.components[d]]_vars

C20_Witness ==
    /\ health.pc = "system"
    /\ health.components["api"] = "CRITICAL"
    /\ health.components["db"] = "DEGRADED"
    /\ GetCount(error_counts, "api") >= 2
    /\ GetCount(error_counts, "db") = 1
    /\ \E n \in Reporters : GetCount(error_counts, n) = 1

\* C21: every response of the health endpoint has status 200 exactly when the
\* overall health that the bot's check cycles have produced is HEALTHY, and
\* 503 otherwise.
C21_EndpointReflectsBotHealth ==
    endpoint.status # 0
        => /\ endpoint.status \in {200, 503}
           /\ (endpoint.status = 200) <=> endpoint.bot_healthy

(***************************************************************************)
(* Properties of the PriorityManager.                                      *)
(***************************************************************************)

\* C22: the ranked list holds exactly the valid slots it was given (same
\* length, every slot once), every NACIONAL (primary) slot before every
\* SCHENGEN (secondary) slot whatever the dates, dates non-decreasing within a
\* category, and slots of equal category and date in their input order.
C22_RankingIsStablePermutation ==
    prio.pc \in {"report_ok", "done"} /\ prio.raised_in = "none"
        => LET v == prio.validated
               r == prio.prioritized
           IN  /\ Len(r) = Len(v)
               /\ \A i \in 1..Len(v) : \E j \in 1..Len(r) : r[j] = v[i]
               /\ \A i, j \in 1..Len(r) : i # j => r[i].id # r[j].id
               /\ \A i, j \in 1..Len(r) :
                    i < j =>
                      /\ ~(r[i].type = "SCHENGEN" /\ r[j].type = "NACIONAL")
                      /\ r[i].type = r[j].type => r[i].date <= r[j].date
                      /\ r[i].type = r[j].type /\ r[i].date = r[j].date
                            => r[i].id < r[j].id

C22_Witness ==
    /\ prio.outcome = "returned"
    /\ Len(prio.prioritized) = 3
    /\ prio.validated[1].type = "SCHENGEN" /\ prio.validated[1].date = 1
    /\ prio.validated[2].type = "NACIONAL" /\ prio.validated[2].date = 2
    /\ prio.validated[3] = [prio.validated[1] EXCEPT !.id = prio.validated[3].id]
    /\ prio.prioritized = <<prio.validated[2], prio.validated[1], prio.validated[3]>>

\* C23 as stated: validate_slots returns, in input order, exactly the input
\* slots with a recognized visa type, available_spots > 0 and a date not in the
\* past, and validating that output again returns it unchanged.
C23_ValidationIdempotent ==
    prio.pc \in {"report_ok", "done"} /\ prio.raised_in = "none"
        => /\ prio.validated
                = SelectSeq(prio.slots,
                            LAMBDA x : /\ x.type \in {"NACIONAL", "SCHENGEN"}
                                       /\ x.available_spots > 0
                                       /\ x.date >= prio.validated_at)
           /\ prio.revalidated_at # 0 => prio.revalidated = prio.validated

\* C23 amended: validate_slots returns, in input order, exactly the input
\* slots with a recognized visa type, available_spots > 0 and a date not before
\* the time of the call; validating that output again returns it without the
\* slots whose date has passed since, and so unchanged when none has.
C23_ValidationIdempotentAtOneTime ==
    prio.pc \in {"report_ok", "done"} /\ prio.raised_in = "none"
        => /\ prio.validated
                = SelectSeq(prio.slots,
                            LAMBDA x : /\ x.type \in {"NACIONAL", "SCHENGEN"}
                                       /\ x.available_spots > 0
                                       /\ x.date >= prio.validated_at)
           /\ prio.revalidated_at # 0
                => /\ prio.revalidated
                        = SelectSeq(prio.validated,
                                    LAMBDA x : x.date >= prio.revalidated_at)
                   /\ (\A i \in 1..Len(prio.validated) :
                          prio.validated[i].date >= prio.revalidated_at)
                        => prio.revalidated = prio.validated

C23_Witness ==
    /\ prio.revalidated_at # 0
    /\ Len(prio.slots) = 3
    /\ Len(prio.validated) = 1
    /\ \E i \in 1..3 : prio.slots[i].date < prio.validated_at
    /\ \E i \in 1..3 : prio.slots[i].available_spots = 0
    /\ prio.revalidated = prio.validated

\* C24: a prioritization call in which a step raised has reported the error
\* to the HealthCheck and returned an empty list; no exception has reached the
\* caller.
C24_FailureReturnsEmpty ==
    prio.pc = "done" /\ prio.raised_in # "none"
        => /\ prio.outcome = "returned"
           /\ prio.returned = <<>>
           /\ prio.hc_errors >= 1

\* C25: every finished prioritization call, the failure path included, has
\* appended exactly one event to the history, with input_count the number of
\* slots passed in and output_count the number of slots returned.
C25_OneEventPerCall ==
    prio.pc = "done"
        => LET mine == {i \in 1..Len(prio.history) : prio.history[i].by = prio.cur}
           IN  /\ Cardinality(mine) = 1
               /\ \A i \in mine :
                    /\ prio.history[i].input_count = Len(prio.slots)
                    /\ prio.history[i].output_count = Len(prio.returned)


(***************************************************************************)
(* Properties of one booking cycle.                                        *)
(***************************************************************************)

\* C26: within one booking cycle the slots book_slot has been called for are,
\* in call order, a prefix of the prioritized list; the attempt in progress is
\* the last of them (one at a time); and once an attempt has succeeded it is
\* the last one the cycle makes.
C26_AttemptsInOrderStopAtSuccess ==
    \A c \in Cycles :
        LET a == task[c].attempted
        IN  /\ Len(a) <= Len(task[c].slots)
            /\ \A i \in 1..Len(a) : i <= Len(task[c].slots) => a[i] = task[c].slots[i]
            /\ task[c].pc = "booking"
                  => Len(a) = task[c].idx /\ a[Len(a)] = task[c].slot
            /\ task[c].won # 0 => Len(a) = task[c].won

C26_Witness ==
    \E c \in Cycles :
        /\ task[c].pc = "done"
        /\ Len(task[c].slots) = 2
        /\ task[c].attempted = task[c].slots
        /\ task[c].won = 2
        /\ task[c].slots[1] \in failed

\* a cycle that has returned at line 213 or 218
ReturnedEarly(c) ==
    task[c].pc = "done" /\ (task[c].slots = <<>> \/ task[c].users = <<>>)

\* C27: a cycle whose ranked list is empty, or that gets no unbooked user, has
\* returned without a FormFiller call, without a booking attempt and without
\* the rate limiter's unit, and the step that returns leaves the locks, the
\* limiter and the booking statistics as they were.
C27_EarlyReturnTouchesNothing ==
    /\ [](\A c \in Cycles :
            ReturnedEarly(c)
                => /\ task[c].forms = <<>>
                   /\ task[c].attempted = <<>>
                   /\ ~task[c].token)
    /\ [][\A c \in Cycles :
            task[c].pc = "idle" /\ ReturnedEarly(c)'
                => UNCHANGED <<booking_locks, rate_limiter, booking_stats,
                   runVars>>]_vars

C27_Witness ==
    /\ task["k1"].pc = "done"
    /\ task["k1"].slots # <<>>
    /\ task["k1"].users = <<>>
    /\ task["rapid_book"].pc = "booking"
    /\ booking_stats.total_attempts > 0

FormCount(c, op, u) ==
    Cardinality({i \in 1..Len(task[c].forms) : task[c].forms[i] = FormCall(op, u)})

\* C28: a cycle that got users has filled each user's form exactly once and
\* saved once per user; with two users add_another_applicant comes after the
\* first save and before the (only) fill of the second user's form.
C28_EachFormFilledAndSavedOnce ==
    \A c \in Cycles :
        LET f == task[c].forms
            u == task[c].users
        IN  u # <<>>
              => /\ \A k \in 1..Len(u) : FormCount(c, "fill_form", u[k]) = 1
                 /\ FormCount(c, "save_form", "none") = Len(u)
                 /\ Len(u) = 2
                      => \E a \in 1..Len(f) :
                           /\ f[a] = FormCall("add_another_applicant", "none")
                           /\ \E v \in 1..(a - 1) : f[v] = FormCall("save_form", "none")
                           /\ \A k \in 1..Len(f) :
                                f[k] = FormCall("fill_form", u[2]) => k > a

InProgress == Cardinality({t \in Tasks : task[t].pc = "booking"})

C30_OneTerminalEventPerAttempt ==
    /\ Len(emitted)
         = booking_stats.successful_bookings + booking_stats.failed_bookings
    /\ \A i \in 1..Len(emitted) :
         emitted[i].type \in {"booking_success", "booking_error"}
    /\ Cardinality({i \in 1..Len(emitted) : emitted[i].type = "booking_error"})
         = GetCount(error_counts, "booking")

(***************************************************************************)
(* Properties of run and stop.                                             *)
(***************************************************************************)

C32_RestartAfterFatalError ==
    [](bot.fatal => <>bot.is_running)

\* C33: the slot a cycle's booking transaction is carried out on is the slot
\* whose lock the cycle holds.
C33_BooksTheLockedSlot ==
    \A c \in Cycles :
        task[c].pc = "booking" /\ task[c].best # "none"
            => /\ task[c].best = task[c].slot
               /\ booking_locks[task[c].best].owner = c

(***************************************************************************)
(* Further properties of the circuit breaker and of retry.                 *)
(***************************************************************************)

\* C34: the breaker never goes from OPEN directly to CLOSED; it leaves OPEN
\* only by becoming HALF_OPEN, also when several retry calls share it.
C34_OpenLeavesViaHalfOpen ==
    [][cb.state = "OPEN" => cb'.state \in {"OPEN", "HALF_OPEN"}]_vars

RECURSIVE SumRefusals(_)
SumRefusals(S) ==
    IF S = {} THEN 0
    ELSE LET q == CHOOSE x \in S : TRUE IN call[q].refusals + SumRefusals(S \ {q})

\* every failure the breaker has recorded beyond the failure_threshold that
\* opened it is a refused caller: the operation has not run since it opened
OnlyRefusalsSinceOpen ==
    cb.failures = failure_threshold + SumRefusals(Calls)

\* C35: with the operation not invoked since the breaker opened, a caller that
\* asks the breaker more than reset_timeout after it opened is admitted (the
\* breaker turns HALF_OPEN), whatever callers were refused in the meantime.
C35_AdmitsAfterResetTimeout ==
    \A p \in Calls :
        /\ call[p].gate_state = "OPEN"
        /\ call[p].gate_age > reset_timeout
        /\ OnlyRefusalsSinceOpen
        => call[p].gate_ans

\* C36: the breaker is CLOSED exactly when its failure count is below
\* failure_threshold; OPEN and HALF_OPEN occur only with a count at or above
\* it, so one failure recorded while HALF_OPEN opens the breaker again.
C36_ClosedIffBelowThreshold ==
    /\ [](cb.state = "CLOSED" <=> cb.failures < failure_threshold)
    /\ [][cb.state = "HALF_OPEN" /\ cb'.failures > cb.failures
            => cb'.state = "OPEN"]_vars

C36_Witness ==
    /\ cb.state = "OPEN"
    /\ cb.failures > failure_threshold
    /\ \E p \in Calls :
         /\ call[p].pc = "sleeping"
         /\ call[p].gate_state = "OPEN"
         /\ call[p].gate_ans

(***************************************************************************)
(* Progress of overlapping cycles.                                         *)
(***************************************************************************)
LocksHeld(c) == {s \in SlotIds : booking_locks[s].owner = c}

\* C37: a cycle holds at most one slot lock, and none outside the attempt
\* (it is released on success, on a failure result and on an exception); and
\* every cycle waiting for a slot lock comes to hold it.
C37_LocksReleasedNoDeadlock ==
    /\ [](\A c \in Cycles :
            /\ Cardinality(LocksHeld(c)) <= 1
            /\ task[c].pc \in {"idle", "loop", "waitlock", "done"}
                 => LocksHeld(c) = {})
    /\ \A c \in Cycles :
         (task[c].pc = "waitlock")
            ~> (task[c].pc = "limiter"
                  /\ booking_locks[task[c].slot].owner = c)

C37_Witness ==
    \E c \in Cycles, d \in Cycles :
        /\ c # d
        /\ task[c].pc = "booking" /\ task[c].waited
        /\ task[d].pc = "done"
        /\ task[c].slot \in {task[d].attempted[i] : i \in 1..Len(task[d].attempted)}

\* C38: every retry() call runs at most max_retries loop iterations: an
\* iteration either returns the result or raises the attempt counter by exactly
\* 1, so the iterations begun are the attempts counted, plus the one in
\* progress or the one that returned; a call that has ended ran no more than
\* max_retries of them; neither count ever goes down, and a call that has
\* ended runs no further iteration.
InIteration(l) ==
    l.pc \in {"security", "invoke", "report_ok"} \/ l.outcome = "returned"

C38_TerminatesWithinMaxRetries ==
    /\ [](\A p \in Calls :
            /\ call[p].iters <= call[p].max_retries
            /\ call[p].attempts <= call[p].max_retries
            /\ call[p].iters
                 = call[p].attempts + (IF InIteration(call[p]) THEN 1 ELSE 0))
    /\ [][\A p \in Calls :
            call[p].pc # "idle"
                => /\ call'[p].attempts >= call[p].attempts
                   /\ call'[p].iters >= call[p].iters
                   /\ call[p].pc = "done" => call'[p] = call[p]]_vars

C38_Witness ==
    /\ \E p \in Calls :
         /\ call[p].pc = "done" /\ call[p].outcome = "RetryError"
         /\ call[p].max_retries >= 2
         /\ call[p].iters = call[p].max_retries
    /\ \E p \in Calls :
         /\ call[p].pc = "done" /\ call[p].outcome = "returned"
         /\ call[p].attempts >= 1
         /\ call[p].iters = call[p].max_retries

\* C39: each retry() call reports exactly one outcome to the health check: a
\* call that has ended made one report, record_success if it returned a result
\* and record_error otherwise, and a call still between attempts has reported
\* nothing.
C39_OneHealthReportPerCall ==
    \A p \in Calls :
        /\ call[p].pc = "done"
             => /\ call[p].ok_reports + call[p].err_reports = 1
                /\ call[p].ok_reports = 1 <=> call[p].outcome = "returned"
        /\ call[p].pc \notin {"done"}
             => call[p].ok_reports + call[p].err_reports = 0

\* C40: attempt_recovery changes neither the component statuses, the overall
\* status nor the error counts: every step of it leaves them as they were, a
\* component whose recovery probe answered 200, and the overall status, are
\* still non-HEALTHY when the cycle goes on, and statuses change only in the
\* probes and the overall update of a check cycle.
C40_RecoveryChangesNoStatus ==
    /\ [][health.pc \in {"recover", "recover_sleep"} /\ health' # health
            => /\ health'.components = health.components
               /\ health'.overall = health.overall
               /\ error_counts' = error_counts]_vars
    /\ [](health.rec200 # {}
            => /\ health.overall # "HEALTHY"
               /\ \A c \in health.rec200 : health.components[c] # "HEALTHY")
    /\ [][health'.components # health.components \/ health'.overall # health.overall
            => health.pc \in {"probe", "system"}]_vars

C40_Witness ==
    /\ health.pc = "save"
    /\ health.rec200 # {}
    /\ health.overall \in {"DEGRADED", "CRITICAL"}
    /\ \E c \in health.rec200 : health.components[c] \in {"DEGRADED", "CRITICAL"}

=============================================================================
